---- MODULE Spec2Model ----
(***************************************************************************)
(* Model of src/backend/distributed/transaction/worker_transaction.c:      *)
(* the worker connection list (transaction registry), the two command      *)
(* dispatchers and the transaction callback that completes the remote      *)
(* transactions.  The coordinator is one backend, so the code runs as one  *)
(* sequential flow; pc is its position.  Every libpq call has a            *)
(* nondeterministic result.                                                *)
(***************************************************************************)
EXTENDS Integers, Sequences, FiniteSets, TLC

\* ---- bounds ----
NumWorkers == 2          \* worker node identities are 1..NumWorkers
MaxXacts == 2            \* local transactions started in one backend
MaxCalls == 2            \* dispatch calls in one local transaction

Workers == 1..NumWorkers

VARIABLES
    workerConnectionList,      \* static List *workerConnectionList (handle ids)
    isXactCallbackRegistered,  \* static bool isXactCallbackRegistered
    registerCount,             \* number of RegisterXactCallback calls made
    MultiShardCommitProtocol,  \* configuration: "1PC" or "2PC"
    conns,                     \* the TransactionConnections allocated in this transaction
    wire,                      \* commands put on the wire in this local transaction
    pc,                        \* position of the backend in this file's code
    mode,                      \* which dispatcher is running: "order" / "parallel"
    workerList,                \* OpenWorkerTransactions: local workerList
    connectionList,            \* local connectionList of the running function
    idx,                       \* foreach position (1-based)
    event,                     \* XactEvent being handled
    xactState,                 \* local transaction manager state
    xactId,                    \* number of the current local transaction
    calls,                     \* dispatch calls started in this local transaction
    returned,                  \* one record for each OpenWorkerTransactions call of this transaction
    events,                    \* lifecycle events delivered for this transaction
    teardowns                  \* times line 273 emptied a list in this transaction

vars == <<workerConnectionList, isXactCallbackRegistered,
          registerCount, MultiShardCommitProtocol, conns, wire, pc, mode,
          workerList, connectionList, idx, event, xactState, xactId, calls,
          returned, events, teardowns>>

\* ---- helpers ----
Range(s) == {s[i] : i \in 1..Len(s)}

\* the nodes of set S as the provider lists them: in ascending identity
SortedSeq(S) ==
    CHOOSE s \in [1..Cardinality(S) -> S] :
        \A i, j \in 1..Cardinality(S) : i < j => s[i] < s[j]

\* A handle is the address of a TransactionConnection: the transaction whose
\* TopTransactionContext it was allocated in (line 164) and its number there.
Handle(x, i) == [xact |-> x, n |-> i]

NoHandle == Handle(0, 0)


\* a new TransactionConnection: palloc0, connectionId 0, TRANSACTION_STATE_OPEN
NewTransactionConnection(n) ==
    [node |-> n, transactionState |-> "OPEN", open |-> TRUE, channel |-> "idle"]

\* the end of a local transaction frees its TopTransactionContext; a handle
\* of an earlier transaction points at freed memory
Live(h) == h.xact = xactId /\ h.n \in 1..Len(conns)

Freed == [node |-> 0, transactionState |-> "FREED", open |-> FALSE,
          channel |-> "idle"]

Conn(h) == IF Live(h) THEN conns[h.n] ELSE Freed

SetState(cs, h, s) ==
    IF Live(h) THEN [cs EXCEPT ![h.n].transactionState = s] ELSE cs

SetChannel(cs, h, c) ==
    IF Live(h) THEN [cs EXCEPT ![h.n].channel = c] ELSE cs

Init ==
    /\ workerConnectionList = <<>>
    /\ isXactCallbackRegistered = FALSE
    /\ registerCount = 0
    /\ MultiShardCommitProtocol = "1PC"
    /\ conns = <<>>
    /\ wire = <<>>
    /\ pc = "idle"
    /\ mode = "order"
    /\ workerList = <<>>
    /\ connectionList = <<>>
    /\ idx = 1
    /\ event = "NONE"
    /\ xactState = "none"
    /\ xactId = 0
    /\ calls = 0
    /\ returned = <<>>
    /\ events = <<>>
    /\ teardowns = 0

\* ---- groups of variables for UNCHANGED ----
globalVars == <<workerConnectionList, isXactCallbackRegistered, registerCount>>
localVars == <<mode, workerList, connectionList, idx, event>>
xactVars == <<xactState, xactId, calls>>
histVars == <<returned, events, teardowns>>

\* control leaves this file's code: its locals are gone
Return ==
    /\ pc' = "idle"
    /\ mode' = "order"
    /\ workerList' = <<>>
    /\ connectionList' = <<>>
    /\ idx' = 1
    /\ event' = "NONE"

\* ereport(ERROR, ...): control leaves this file's code and the local
\* transaction can only abort
RaiseError ==
    /\ Return
    /\ xactState' = "failed"

\* the foreach loop moves to its next cell
NextCell ==
    /\ idx' = idx + 1
    /\ UNCHANGED <<pc, mode, workerList, connectionList, event, xactState>>

\* ---- local transaction manager (external lifecycle event source) ----
StartTransaction ==
    /\ pc = "idle"
    /\ xactState \in {"none", "commit", "abort"}
    /\ xactId < MaxXacts
    /\ xactState' = "active"
    /\ xactId' = xactId + 1
    /\ calls' = 0
    /\ wire' = <<>>
    /\ returned' = <<>>
    /\ events' = <<>>
    /\ teardowns' = 0
    /\ conns' = <<>>
    /\ UNCHANGED <<globalVars, MultiShardCommitProtocol,
                   pc, localVars>>

\* the callback runs only if RegisterXactCallback was called
Deliver(e) ==
    IF isXactCallbackRegistered
    THEN /\ pc' = "complete"
         /\ event' = e
    ELSE UNCHANGED <<pc, event>>

\* an event that is none of PRE_COMMIT, COMMIT, ABORT
DeliverOther ==
    /\ pc = "idle"
    /\ xactState = "active"
    /\ isXactCallbackRegistered
    /\ Deliver("OTHER")
    /\ UNCHANGED <<globalVars, MultiShardCommitProtocol,
                   conns, wire, mode, workerList, connectionList, idx,
                   xactVars, histVars>>

\* The commit protocol is a session setting; the code reads it only at
\* pre-commit (line 239), so its value then is an input of this event.
DeliverPreCommit ==
    /\ pc = "idle"
    /\ xactState = "active"
    /\ xactState' = "precommit"
    /\ \E p \in {"1PC", "2PC"} : MultiShardCommitProtocol' = p
    /\ Deliver("PRE_COMMIT")
    /\ events' = Append(events, "PRE_COMMIT")
    /\ UNCHANGED <<globalVars,
                   conns, wire, mode, workerList, connectionList, idx,
                   xactId, calls, returned, teardowns>>

DeliverCommit ==
    /\ pc = "idle"
    /\ xactState = "precommit"
    /\ xactState' = "commit"
    /\ Deliver("COMMIT")
    /\ events' = Append(events, "COMMIT")
    /\ UNCHANGED <<globalVars, MultiShardCommitProtocol,
                   conns, wire, mode, workerList, connectionList, idx,
                   xactId, calls, returned, teardowns>>

\* a user ROLLBACK, or the abort forced by an error
DeliverAbort ==
    /\ pc = "idle"
    /\ xactState \in {"active", "failed"}
    /\ xactState' = "abort"
    /\ Deliver("ABORT")
    /\ events' = Append(events, "ABORT")
    /\ UNCHANGED <<globalVars, MultiShardCommitProtocol,
                   conns, wire, mode, workerList, connectionList, idx,
                   xactId, calls, returned, teardowns>>

\* ---- public operations: entry ----
CallDispatch(m) ==
    /\ pc = "idle"
    /\ xactState = "active"
    /\ calls < MaxCalls
    /\ calls' = calls + 1
    /\ mode' = m
    /\ pc' = "open_enter"
    /\ UNCHANGED <<globalVars, MultiShardCommitProtocol,
                   conns, wire, workerList, connectionList, idx, event,
                   xactState, xactId, histVars>>

CallInOrder == CallDispatch("order")

CallInParallel == CallDispatch("parallel")

\* ---- OpenWorkerTransactions ----
\* Topology Provider (external): what WorkerNodeList() can return.  The
\* worker set may be any set of nodes at each call; the code reads it once,
\* on line 146.
WorkerNodeList == {SortedSeq(S) : S \in SUBSET Workers}

\* mutants of the test of line 151: reopen on every call; reopen only when
\* the cluster grew
CardinalityChanged_Always(workerCount, workerConnectionCount) == TRUE

CardinalityChanged_OnlyGrowth(workerCount, workerConnectionCount) ==
    workerCount > workerConnectionCount

\* line 151: the cached list is dropped when the worker count differs
CardinalityChanged(workerCount, workerConnectionCount) ==
    workerCount # workerConnectionCount

\* CloseConnections: every handle of the list is closed
CloseConnections(cs, list) ==
    [i \in 1..Len(cs) |->
        IF Handle(xactId, i) \in Range(list)
        THEN [cs[i] EXCEPT !.open = FALSE] ELSE cs[i]]

\* one entry of the wire log: command c went to node n on handle h (0: no
\* handle allocated yet) with result r, during dispatch call k; chan is the
\* state the handle's channel was in when the command was sent
Msg(n, h, c, r, k) ==
    [node |-> n, h |-> h, cmd |-> c, ok |-> r, call |-> k,
     chan |-> Conn(h).channel]

CloseMsgs(list) ==
    [i \in 1..Len(list) |-> Msg(Conn(list[i]).node, list[i], "CLOSE", TRUE, calls)]

\* the dispatcher's loop that follows the return of OpenWorkerTransactions
AfterOpen == IF mode = "order" THEN "send_order" ELSE "submit"

\* mutant: the closed handles stay in the list
AfterInvalidation_Kept(list) == list

\* line 154: workerConnectionList = NIL
AfterInvalidation(list) == <<>>

\* lines 146-164: read the topology, invalidate on a count mismatch, return
\* the cached list if one remains, else start opening
OpenWorkerTransactionsEnter ==
    /\ pc = "open_enter"
    /\ \E wl \in WorkerNodeList :
       LET changed == CardinalityChanged(Len(wl), Len(workerConnectionList))
           cached == IF changed THEN AfterInvalidation(workerConnectionList)
                     ELSE workerConnectionList
       IN /\ workerList' = wl
          /\ conns' = IF changed THEN CloseConnections(conns, workerConnectionList)
                      ELSE conns
          /\ wire' = IF changed THEN wire \o CloseMsgs(workerConnectionList)
                     ELSE wire
          /\ workerConnectionList' = cached
          /\ idx' = 1
          /\ IF cached # <<>>
             THEN /\ connectionList' = cached
                  /\ pc' = AfterOpen
                  /\ returned' = Append(returned,
                        [list |-> cached, old |-> workerConnectionList,
                         fresh |-> FALSE, done |-> TRUE, workers |-> wl,
                         mode |-> mode])
             ELSE /\ connectionList' = <<>>
                  /\ pc' = "open_loop"
                  /\ returned' = Append(returned,
                        [list |-> <<>>, old |-> workerConnectionList,
                         fresh |-> TRUE, done |-> FALSE, workers |-> wl,
                         mode |-> mode])
    /\ UNCHANGED <<isXactCallbackRegistered, registerCount,
                   MultiShardCommitProtocol, mode, event, xactVars, events,
                   teardowns>>

\* mutant of the loop of lines 166-202: the list under construction is
\* stored in the static variable as each handle is appended
RegistryInLoop_Stored(registry, list) == list

\* lines 166-202: the loop appends to the local connectionList only, the
\* static workerConnectionList is not assigned before line 212
RegistryInLoop(registry, list) == registry

\* lines 166-202, one worker: GetOrEstablishConnection, BEGIN, new handle
OpenWorkerTransactionsLoop ==
    /\ pc = "open_loop"
    /\ idx <= Len(workerList)
    /\ LET n == workerList[idx]
           h == Handle(xactId, Len(conns) + 1)
       IN \E outcome \in {"absent", "refused", "ok"} :
            CASE outcome = "absent" ->
                   /\ RaiseError
                   /\ UNCHANGED <<conns, wire, workerConnectionList>>
              [] outcome = "refused" ->
                   /\ wire' = Append(wire, Msg(n, NoHandle, "BEGIN", FALSE, calls))
                   /\ RaiseError
                   /\ UNCHANGED <<conns, workerConnectionList>>
              [] outcome = "ok" ->
                   /\ wire' = Append(wire, Msg(n, h, "BEGIN", TRUE, calls))
                   /\ conns' = Append(conns, NewTransactionConnection(n))
                   /\ connectionList' = Append(connectionList, h)
                   /\ workerConnectionList' =
                         RegistryInLoop(workerConnectionList,
                                        Append(connectionList, h))
                   /\ idx' = idx + 1
                   /\ UNCHANGED <<pc, mode, workerList, event, xactState>>
    /\ UNCHANGED <<isXactCallbackRegistered, registerCount,
                   MultiShardCommitProtocol, xactId, calls, histVars>>

MustRegister_Always(registered) == TRUE

\* line 206: if (!isXactCallbackRegistered)
MustRegister(registered) == ~registered

\* lines 204-214: register the callback once, store the list, return it
OpenWorkerTransactionsDone ==
    /\ pc = "open_loop"
    /\ idx > Len(workerList)
    /\ isXactCallbackRegistered' = TRUE
    /\ registerCount' = IF MustRegister(isXactCallbackRegistered)
                        THEN registerCount + 1
                        ELSE registerCount
    /\ workerConnectionList' = connectionList
    /\ returned' = [returned EXCEPT ![Len(returned)].list = connectionList,
                                    ![Len(returned)].done = TRUE]
    /\ idx' = 1
    /\ pc' = AfterOpen
    /\ UNCHANGED <<MultiShardCommitProtocol, conns, wire,
                   mode, workerList, connectionList, event, xactVars, events,
                   teardowns>>

\* ---- SendCommandToWorkersInOrder ----
\* mutant of the test of line 59: the result is not looked at
CommandFailed_Never(result) == FALSE

\* line 59: PQresultStatus(result) != PGRES_COMMAND_OK
CommandFailed(result) == result # "COMMAND_OK"

\* lines 51-69, one handle: PQexec, error out on a non-success result
SendCommandToWorkersInOrder ==
    /\ pc = "send_order"
    /\ idx <= Len(connectionList)
    /\ LET h == connectionList[idx]
       IN \E result \in {"COMMAND_OK", "FATAL_ERROR"} :
            /\ wire' = Append(wire, Msg(Conn(h).node, h, "CMD",
                                        result = "COMMAND_OK", calls))
            /\ IF CommandFailed(result) THEN RaiseError ELSE NextCell
    /\ UNCHANGED <<globalVars, MultiShardCommitProtocol,
                   conns, xactId, calls, histVars>>

\* line 70: the loop is over, return to the caller
SendCommandToWorkersInOrderReturn ==
    /\ pc = "send_order"
    /\ idx > Len(connectionList)
    /\ Return
    /\ UNCHANGED <<globalVars, MultiShardCommitProtocol,
                   conns, wire, xactVars, histVars>>

\* ---- SendCommandToWorkersInParallel ----
SubmitFailed_Never(querySent) == FALSE

\* line 93: querySent == 0
SubmitFailed(querySent) == querySent = 0

DrainsOnError_True == TRUE

\* lines 96-101, 117-123: ereport(ERROR) leaves the function at once, no
\* PQgetResult is called on the handles already submitted to
DrainsOnError == FALSE

\* the channels as the failing call leaves them
ChannelsOnError(cs) ==
    IF DrainsOnError
    THEN [i \in 1..Len(cs) |-> [cs[i] EXCEPT !.channel = "idle"]]
    ELSE cs

\* lines 85-103, one handle: PQsendQuery
SendCommandToWorkersInParallelSubmit ==
    /\ pc = "submit"
    /\ idx <= Len(connectionList)
    /\ LET h == connectionList[idx]
       IN \E querySent \in {0, 1} :
            /\ wire' = Append(wire, Msg(Conn(h).node, h, "SUBMIT",
                                        querySent = 1, calls))
            /\ IF SubmitFailed(querySent)
               THEN /\ RaiseError
                    /\ conns' = ChannelsOnError(conns)
               ELSE /\ conns' = SetChannel(conns, h, "result")
                    /\ NextCell
    /\ UNCHANGED <<globalVars, MultiShardCommitProtocol,
                   xactId, calls, histVars>>

\* line 105: the submit loop is over, start draining from the first handle
SendCommandToWorkersInParallelSubmitted ==
    /\ pc = "submit"
    /\ idx > Len(connectionList)
    /\ pc' = "drain"
    /\ idx' = 1
    /\ UNCHANGED <<globalVars, MultiShardCommitProtocol,
                   conns, wire, mode, workerList, connectionList, event,
                   xactVars, histVars>>

DrainsTrailingMarker_Not == FALSE

\* lines 127-128: one more PQgetResult after the result was cleared
DrainsTrailingMarker == TRUE

\* lines 105-129, one handle: PQgetResult, error out on a non-success
\* result, else PQgetResult once more for the trailing NULL
SendCommandToWorkersInParallelDrain ==
    /\ pc = "drain"
    /\ idx <= Len(connectionList)
    /\ LET h == connectionList[idx]
           n == Conn(h).node
       IN \E result \in {"COMMAND_OK", "FATAL_ERROR"} :
            IF CommandFailed(result)
            THEN /\ wire' = Append(wire, Msg(n, h, "RESULT", FALSE, calls))
                 /\ conns' = ChannelsOnError(SetChannel(conns, h, "marker"))
                 /\ RaiseError
            ELSE /\ wire' = wire \o <<Msg(n, h, "RESULT", TRUE, calls)>>
                               \o IF DrainsTrailingMarker
                                  THEN <<Msg(n, h, "MARKER", TRUE, calls)>>
                                  ELSE <<>>
                 /\ conns' = SetChannel(conns, h,
                                IF DrainsTrailingMarker THEN "idle" ELSE "marker")
                 /\ NextCell
    /\ UNCHANGED <<globalVars, MultiShardCommitProtocol,
                   xactId, calls, histVars>>

\* line 130
SendCommandToWorkersInParallelReturn ==
    /\ pc = "drain"
    /\ idx > Len(connectionList)
    /\ Return
    /\ UNCHANGED <<globalVars, MultiShardCommitProtocol,
                   conns, wire, xactVars, histVars>>

\* ---- CompleteWorkerTransactions ----
\* line 225
NothingToDo(list) == list = <<>>

\* mutants of the tests of lines 230 and 239: PREPARE issued in the COMMIT
\* branch; never issued; issued whatever the protocol
PrepareNeeded_AtCommit(e, protocol) == e = "COMMIT" /\ protocol = "2PC"

PrepareNeeded_Never(e, protocol) == FALSE

PrepareNeeded_AnyProtocol(e, protocol) == e = "PRE_COMMIT"

\* lines 230, 239: PREPARE is issued at pre-commit under the 2PC protocol
PrepareNeeded(e, protocol) == e = "PRE_COMMIT" /\ protocol = "2PC"

\* mutant: the ABORT branch returns before line 273
ClearsRegistry_OnlyCommit(e) == e = "COMMIT"

\* mutant: the PRE_COMMIT branch falls through to line 273
ClearsRegistry_AlsoPreCommit(e) == e \in {"PRE_COMMIT", "COMMIT", "ABORT"}

\* lines 244, 270, 273: only the COMMIT and ABORT branches reach the final
\* workerConnectionList = NIL
ClearsRegistry(e) == e \in {"COMMIT", "ABORT"}

\* mutant: no ABORT branch, the event falls into the final else
Branch_NoAbort(list, e, protocol) ==
    CASE NothingToDo(list) -> "idle"
      [] PrepareNeeded(e, protocol) -> "prepare"
      [] e = "PRE_COMMIT" -> "idle"
      [] e = "COMMIT" -> "commit"
      [] OTHER -> "idle"

\* lines 225-271: the branch taken for the event; "idle" is a return
Branch(list, e, protocol) ==
    CASE NothingToDo(list) -> "idle"
      [] PrepareNeeded(e, protocol) -> "prepare"
      [] e = "PRE_COMMIT" -> "idle"
      [] e = "COMMIT" -> "commit"
      [] e = "ABORT" -> "abort"
      [] OTHER -> "idle"

CompleteWorkerTransactions ==
    /\ pc = "complete"
    /\ LET b == Branch(workerConnectionList, event, MultiShardCommitProtocol)
       IN IF b = "idle"
          THEN Return
          ELSE /\ pc' = b
               /\ idx' = 1
               /\ UNCHANGED <<mode, workerList, connectionList, event>>
    /\ UNCHANGED <<globalVars, MultiShardCommitProtocol,
                   conns, wire, xactVars, histVars>>

Terminal == {"COMMITTED", "ABORTED", "FAILED"}

\* a state change of a handle; a terminal state is never left
Advance(cs, h, s) ==
    IF Conn(h).transactionState \in Terminal THEN cs ELSE SetState(cs, h, s)

\* PrepareRemoteTransactions(workerConnectionList), one handle
PrepareRemoteTransactions ==
    /\ pc = "prepare"
    /\ idx <= Len(workerConnectionList)
    /\ LET h == workerConnectionList[idx]
       IN \E ok \in BOOLEAN :
            /\ wire' = Append(wire, Msg(Conn(h).node, h, "PREPARE", ok, 0))
            /\ IF ok
               THEN /\ conns' = Advance(conns, h, "PREPARED")
                    /\ NextCell
               ELSE /\ UNCHANGED conns
                    /\ RaiseError
    /\ UNCHANGED <<globalVars, MultiShardCommitProtocol,
                   xactId, calls, histVars>>

StopOnFailure_True == TRUE

\* line 255: the second argument of CommitRemoteTransactions
StopOnFailure == FALSE

\* CommitRemoteTransactions(workerConnectionList, false), one handle
CommitRemoteTransactions ==
    /\ pc = "commit"
    /\ idx <= Len(workerConnectionList)
    /\ LET h == workerConnectionList[idx]
           c == IF Conn(h).transactionState = "PREPARED"
                THEN "COMMIT PREPARED" ELSE "COMMIT"
       IN \E ok \in BOOLEAN :
            /\ wire' = Append(wire, Msg(Conn(h).node, h, c, ok, 0))
            /\ conns' = Advance(conns, h, IF ok THEN "COMMITTED" ELSE "FAILED")
            /\ IF ~ok /\ StopOnFailure THEN RaiseError ELSE NextCell
    /\ UNCHANGED <<globalVars, MultiShardCommitProtocol,
                   xactId, calls, histVars>>

\* AbortRemoteTransactions(workerConnectionList), one handle
AbortRemoteTransactions ==
    /\ pc = "abort"
    /\ idx <= Len(workerConnectionList)
    /\ LET h == workerConnectionList[idx]
           c == IF Conn(h).transactionState = "PREPARED"
                THEN "ROLLBACK PREPARED" ELSE "ROLLBACK"
       IN \E ok \in BOOLEAN :
            /\ wire' = Append(wire, Msg(Conn(h).node, h, c, ok, 0))
            /\ conns' = Advance(conns, h, IF ok THEN "ABORTED" ELSE "FAILED")
    /\ NextCell
    /\ UNCHANGED <<globalVars, MultiShardCommitProtocol,
                   xactId, calls, histVars>>

\* lines 244, 273: the helper returned; the COMMIT and ABORT branches empty
\* the list, the PRE_COMMIT branch returns at once
CompleteWorkerTransactionsReturn ==
    /\ pc \in {"prepare", "commit", "abort"}
    /\ idx > Len(workerConnectionList)
    /\ workerConnectionList' =
          IF ClearsRegistry(event) THEN <<>> ELSE workerConnectionList
    /\ teardowns' = IF ClearsRegistry(event) THEN teardowns + 1 ELSE teardowns
    /\ Return
    /\ UNCHANGED <<isXactCallbackRegistered, registerCount,
                   MultiShardCommitProtocol, conns, wire, xactVars,
                   returned, events>>

Next ==
    \/ StartTransaction
    \/ DeliverOther
    \/ DeliverPreCommit
    \/ DeliverCommit
    \/ DeliverAbort
    \/ CallInOrder
    \/ CallInParallel
    \/ OpenWorkerTransactionsEnter
    \/ OpenWorkerTransactionsLoop
    \/ OpenWorkerTransactionsDone
    \/ SendCommandToWorkersInOrder
    \/ SendCommandToWorkersInOrderReturn
    \/ SendCommandToWorkersInParallelSubmit
    \/ SendCommandToWorkersInParallelSubmitted
    \/ SendCommandToWorkersInParallelDrain
    \/ SendCommandToWorkersInParallelReturn
    \/ CompleteWorkerTransactions
    \/ PrepareRemoteTransactions
    \/ CommitRemoteTransactions
    \/ AbortRemoteTransactions
    \/ CompleteWorkerTransactionsReturn

Spec == Init /\ [][Next]_vars

\* the backend keeps running, and the transaction manager ends every local
\* transaction: it delivers PRE_COMMIT or ABORT, however often other events
\* are delivered in between
FairSpec ==
    /\ Spec
    /\ WF_vars(Next)
    /\ SF_vars(DeliverPreCommit \/ DeliverAbort)

(***************************************************************************)
(* Properties                                                              *)
(***************************************************************************)
WirePos == 1..Len(wire)

\* the BEGINs node n was sent in this local transaction
BeginsTo(n) == {p \in WirePos : wire[p].cmd = "BEGIN" /\ wire[p].node = n}

\* the commands call j dispatched, in the order they went out
CmdsOf(j) == SelectSeq(wire, LAMBDA m : m.cmd = "CMD" /\ m.call = j)

\* calls 2..j each found the worker count equal to the cached list's length
CountUnchanged(j) ==
    \A i \in 2..j : Len(returned[i].workers) = Len(returned[i].old)

\* call j found a worker count that differs from the cached list's length
Mismatch(j) == Len(returned[j].workers) # Len(returned[j].old)

\* C1: while the worker count equals the length of the cached list, every
\* call after the first gets the handle sequence of the first call, sends no
\* BEGIN, and each worker of that sequence was sent exactly one BEGIN in this
\* local transaction up to that call.
C1_StableHandles ==
    \A j \in 2..Len(returned) :
        CountUnchanged(j) =>
            /\ returned[j].list = returned[1].list
            /\ \A p \in WirePos :
                  wire[p].cmd = "BEGIN" => wire[p].call \notin 2..j
            /\ \A i \in 1..Len(returned[j].list) :
                  Cardinality({p \in BeginsTo(Conn(returned[j].list[i]).node) :
                                 wire[p].call <= j}) = 1

\* a second call has been served from a populated cache and has returned,
\* the topology having changed at equal count in between
C1_Witness ==
    /\ Len(returned) = 2
    /\ CountUnchanged(2)
    /\ ~returned[2].fresh
    /\ Len(returned[2].list) >= 1
    /\ returned[2].workers # returned[1].workers
    /\ pc = "idle"
    /\ xactState = "active"

C3_OrderedFailFast ==
    \A j \in 1..Len(returned) :
        returned[j].mode = "order" =>
            LET c == CmdsOf(j)
            IN /\ Len(c) <= Len(returned[j].list)
               /\ \A i \in 1..Len(c) :
                     /\ c[i].h = returned[j].list[i]
                     /\ ~c[i].ok => i = Len(c)
               /\ (pc = "send_order" /\ j = Len(returned)) => idx = Len(c) + 1
               /\ (Len(c) > 0 /\ ~c[Len(c)].ok) =>
                     /\ j = Len(returned)
                     /\ pc # "send_order"
                     /\ xactState \in {"failed", "abort"}

\* the first of two handles refused the command of the second call, after a
\* first call that reached both
C3_Witness ==
    /\ Len(returned) = 2
    /\ returned[1].mode = "order"
    /\ returned[2].mode = "order"
    /\ Len(returned[2].list) = 2
    /\ Len(CmdsOf(1)) = 2
    /\ Len(CmdsOf(2)) = 1
    /\ ~CmdsOf(2)[1].ok

\* the handle list the last dispatch call of this transaction was given: the
\* registered list, also after the callback has emptied workerConnectionList
Registered ==
    IF returned = <<>> THEN <<>> ELSE returned[Len(returned)].list

\* positions of the wire log where handle h was sent a command of set cmds
SentTo(h, cmds) == {p \in WirePos : wire[p].h = h /\ wire[p].cmd \in cmds}

CommitCmds == {"COMMIT", "COMMIT PREPARED"}

RollbackCmds == {"ROLLBACK", "ROLLBACK PREPARED"}

PrepareFailed == \E p \in WirePos : wire[p].cmd = "PREPARE" /\ ~wire[p].ok

\* C4: once a PREPARE has failed at pre-commit, the COMMIT event is not
\* delivered for the transaction, no handle is sent COMMIT or COMMIT
\* PREPARED, and the transaction can only end with the ABORT event.
C4_PrepareFailureAborts ==
    PrepareFailed =>
        /\ MultiShardCommitProtocol = "2PC"
        /\ "COMMIT" \notin Range(events)
        /\ \A p \in WirePos : wire[p].cmd \notin CommitCmds
        /\ xactState \in {"failed", "abort"}
        /\ xactState = "abort" => events = <<"PRE_COMMIT", "ABORT">>

\* a PREPARE succeeded, the next one failed, and the ABORT event was handled
C4_Witness ==
    /\ PrepareFailed
    /\ \E p \in WirePos : wire[p].cmd = "PREPARE" /\ wire[p].ok
    /\ xactState = "abort"
    /\ pc = "idle"

\* C5: under the 2PC protocol a handle is sent a commit command only after
\* PREPARE has succeeded on every handle of the registered list.
C5_PrepareBeforeCommit ==
    \A p \in WirePos :
        (wire[p].cmd \in CommitCmds /\ MultiShardCommitProtocol = "2PC") =>
            /\ wire[p].cmd = "COMMIT PREPARED"
            /\ \A h \in Range(Registered) :
                  \E q \in 1..(p - 1) :
                      /\ wire[q].cmd = "PREPARE"
                      /\ wire[q].ok
                      /\ wire[q].h = h

\* two prepared handles, the first of them committed
C5_Witness ==
    /\ Len(Registered) = 2
    /\ \E p \in WirePos : wire[p].cmd = "COMMIT PREPARED" /\ wire[p].ok
    /\ pc = "commit"

\* C6: PREPARE is sent, and a handle is PREPARED, only in a transaction whose
\* pre-commit read the 2PC protocol.  Under 1PC the pre-commit event sends
\* nothing and leaves the list and the handles as they were, and once the
\* COMMIT event is handled every registered handle was sent one plain COMMIT.
C6_OnePhaseNoPrepare ==
    /\ ( \/ \E p \in WirePos :
               wire[p].cmd \in {"PREPARE", "COMMIT PREPARED", "ROLLBACK PREPARED"}
         \/ \E i \in 1..Len(conns) : conns[i].transactionState = "PREPARED" )
          => ("PRE_COMMIT" \in Range(events) /\ MultiShardCommitProtocol = "2PC")
    /\ (xactState = "precommit" /\ MultiShardCommitProtocol = "1PC") =>
          /\ pc \in {"idle", "complete"}
          /\ \A p \in WirePos : wire[p].call # 0
          /\ workerConnectionList = Registered
          /\ \A h \in Range(Registered) : Conn(h).transactionState = "OPEN"
    /\ (xactState = "commit" /\ pc = "idle" /\ MultiShardCommitProtocol = "1PC") =>
          \A h \in Range(Registered) :
              /\ Cardinality(SentTo(h, {"COMMIT"})) = 1
              /\ SentTo(h, {"PREPARE", "COMMIT PREPARED"}) = {}

\* Scenario A with two workers: 1PC, the COMMIT event has been handled
C6_Witness ==
    /\ xactState = "commit"
    /\ pc = "idle"
    /\ MultiShardCommitProtocol = "1PC"
    /\ Len(Registered) = 2
    /\ \A h \in Range(Registered) : SentTo(h, {"COMMIT"}) # {}

\* C7: when the COMMIT or ABORT event has been handled the list is empty,
\* whatever the remote commands returned; every handle a dispatch call is
\* given was created by a BEGIN of the current local transaction.
C7_RegistryEmptied ==
    /\ (pc = "idle" /\ xactState \in {"none", "commit", "abort"}) =>
          workerConnectionList = <<>>
    /\ (xactState = "active" /\ returned = <<>>) => workerConnectionList = <<>>
    /\ \A j \in 1..Len(returned) :
          \A h \in Range(returned[j].list) :
              /\ h.xact = xactId
              /\ \E p \in WirePos :
                    wire[p].cmd = "BEGIN" /\ wire[p].ok /\ wire[p].h = h

\* in a second transaction a populated list was emptied at the ABORT event
\* although a ROLLBACK had failed
C7_Witness ==
    /\ xactId = 2
    /\ Len(Registered) >= 2
    /\ xactState = "abort"
    /\ pc = "idle"
    /\ \E p \in WirePos : wire[p].cmd = "ROLLBACK" /\ ~wire[p].ok

\* C8: when the ABORT event has been handled, every handle of the registered
\* list was sent a rollback, once, whatever happened before and whatever the
\* other rollbacks returned; the transaction stays aborted.
C8_AbortRollsBackAll ==
    /\ (xactState = "abort" /\ pc = "idle") =>
          /\ \A h \in Range(Registered) :
                Cardinality(SentTo(h, RollbackCmds)) = 1
          /\ events[Len(events)] = "ABORT"
    /\ pc = "abort" => xactState = "abort"

\* Scenario C: a handle prepared, the next PREPARE failed, and at the ABORT
\* event a rollback failed on one handle and was still sent to a later one
C8_Witness ==
    /\ xactState = "abort"
    /\ pc = "idle"
    /\ PrepareFailed
    /\ \E p, q \in WirePos :
          /\ p < q
          /\ wire[p].cmd = "ROLLBACK PREPARED"
          /\ ~wire[p].ok
          /\ wire[q].cmd = "ROLLBACK"

\* the handles whose BEGIN succeeded during call j
BegunIn(j) ==
    {wire[p].h : p \in {q \in WirePos :
                          wire[q].cmd = "BEGIN" /\ wire[q].ok /\ wire[q].call = j}}

\* the last call left OpenWorkerTransactions by an error
PopulationFailed ==
    /\ returned # <<>>
    /\ ~returned[Len(returned)].done
    /\ pc # "open_loop"

\* C9 (as claimed): after a population that failed at worker k, the handles
\* of the workers before k are in the registered list, and once the ABORT
\* event has been handled each of them was sent a rollback.
C9_PartialPopulationRegistered ==
    PopulationFailed =>
        \A h \in BegunIn(Len(returned)) :
            /\ xactState = "failed" => h \in Range(workerConnectionList)
            /\ (xactState = "abort" /\ pc = "idle") => SentTo(h, RollbackCmds) # {}

\* C10 (as claimed): in one local transaction a worker is sent at most one
\* BEGIN and gets at most one handle, whatever the topology does.
C10_OneBeginPerWorker ==
    \A n \in Workers :
        /\ Cardinality(BeginsTo(n)) <= 1
        /\ Cardinality({i \in 1..Len(conns) : conns[i].node = n}) <= 1

\* positions of the wire log where a dispatched command succeeded on a worker
Executed ==
    {p \in WirePos : wire[p].ok /\ wire[p].cmd \in {"CMD", "RESULT"}}

\* the remote transaction of handle h was committed
CommittedOn(h) ==
    \E q \in WirePos : wire[q].h = h /\ wire[q].cmd \in CommitCmds /\ wire[q].ok

\* C11 (as claimed): when the local transaction has committed and every
\* remote commit command succeeded, every command a dispatch call executed
\* on a worker is committed there; when it has aborted, none is.
C11_EffectsFollowOutcome ==
    /\ ( /\ xactState = "commit"
         /\ pc = "idle"
         /\ \A q \in WirePos : wire[q].cmd \in CommitCmds => wire[q].ok )
          => \A p \in Executed : CommittedOn(wire[p].h)
    /\ xactState = "abort" => \A p \in Executed : ~CommittedOn(wire[p].h)

\* a remote commit command failed
CommitFailed ==
    \E q \in WirePos : wire[q].cmd \in CommitCmds /\ ~wire[q].ok

\* C12: a remote commit failure at COMMIT is only reported: the commit is
\* still attempted once on every other registered handle, the local
\* transaction stays committed (no ABORT event, no rollback command), and
\* the registry is empty once the event is handled.
C12_CommitFailureTolerated ==
    CommitFailed =>
        /\ xactState = "commit"
        /\ "ABORT" \notin Range(events)
        /\ \A q \in WirePos : wire[q].cmd \notin RollbackCmds
        /\ pc = "idle" =>
              /\ workerConnectionList = <<>>
              /\ \A i \in 1..Len(Registered) :
                    Cardinality(SentTo(Registered[i], CommitCmds)) = 1

C12_Witness ==
    /\ pc = "idle"
    /\ Len(Registered) = 2
    /\ \E q \in WirePos : /\ wire[q].h = Registered[1]
                          /\ wire[q].cmd \in CommitCmds
                          /\ ~wire[q].ok
    /\ \E q \in WirePos : /\ wire[q].h = Registered[2]
                          /\ wire[q].cmd \in CommitCmds
                          /\ wire[q].ok

\* the calls of this transaction that went through SendCommandToWorkersInParallel
ParallelCalls ==
    {j \in 1..Len(returned) : returned[j].done /\ returned[j].mode = "parallel"}

\* positions of the wire log where call j submitted, or drained
Submits(j) == {p \in WirePos : wire[p].call = j /\ wire[p].cmd = "SUBMIT"}

Drains(j) ==
    {p \in WirePos : wire[p].call = j /\ wire[p].cmd \in {"RESULT", "MARKER"}}

\* C13: in SendCommandToWorkersInParallel the handles are submitted to in
\* list order, and no result is drained before the command was submitted to
\* every handle; a submission failure fails the call at once: no later
\* handle is submitted to and no result is drained.
C13_SubmitBeforeDrain ==
    \A j \in ParallelCalls :
        /\ \A s \in Submits(j) :
              LET k == Cardinality({t \in Submits(j) : t <= s})
              IN /\ k <= Len(returned[j].list)
                 /\ wire[s].h = returned[j].list[k]
                 /\ ~wire[s].ok =>
                       /\ xactState \in {"failed", "abort"}
                       /\ \A q \in WirePos :
                             q > s => wire[q].cmd \notin
                                         {"SUBMIT", "RESULT", "MARKER", "CMD"}
        /\ \A d \in Drains(j) :
              Cardinality({s \in Submits(j) : s < d /\ wire[s].ok})
                 = Len(returned[j].list)

C13_Witness ==
    /\ Len(returned) = 2
    /\ ParallelCalls = {1, 2}
    /\ Len(returned[2].list) = 2
    /\ Drains(1) # {}
    /\ \E s \in Submits(2) : wire[s].h = returned[2].list[2] /\ ~wire[s].ok
    /\ pc = "idle"

\* the commands a handle can be sent while its remote transaction is open
OpenCmds == {"BEGIN", "CMD", "SUBMIT", "RESULT", "MARKER"}

\* list is a complete population made by call j: one distinct live handle
\* per worker of the topology call j read, in topology order, each handle
\* first seen on the wire with its acknowledged BEGIN
CompletePopulation(list, j) ==
    /\ returned[j].fresh
    /\ returned[j].done
    /\ returned[j].list = list
    /\ Len(list) = Len(returned[j].workers)
    /\ \A i \in 1..Len(list) :
          LET h == list[i]
          IN /\ Live(h)
             /\ Conn(h).open
             /\ Conn(h).node = returned[j].workers[i]
             /\ \A k \in 1..Len(list) : list[k] = h => k = i
             /\ \E p \in WirePos :
                   /\ wire[p].h = h
                   /\ wire[p].cmd = "BEGIN"
                   /\ wire[p].ok
                   /\ wire[p].node = returned[j].workers[i]
                   /\ wire[p].call = j
                   /\ \A q \in WirePos : wire[q].h = h => q >= p
             /\ (\A q \in WirePos : wire[q].h = h => wire[q].cmd \in OpenCmds)
                   => Conn(h).transactionState = "OPEN"

\* C14: the registry is empty or holds a complete population: one handle
\* per worker of the topology read when it was populated, in topology
\* order, each created OPEN after its BEGIN was acknowledged; a partially
\* populated list is never stored, and no call is handed a handle created
\* by a population that failed.
C14_RegistryAllOrNothing ==
    /\ workerConnectionList # <<>> =>
          \E j \in 1..Len(returned) : CompletePopulation(workerConnectionList, j)
    /\ PopulationFailed => workerConnectionList = <<>>
    /\ \A j \in 1..Len(returned) : \A k \in 1..Len(returned) :
          (returned[j].done /\ ~returned[k].done) =>
              Range(returned[j].list) \cap BegunIn(k) = {}
    /\ \A j \in 1..Len(returned) :
          returned[j].done => \A h \in Range(returned[j].list) : Live(h)

C14_Witness ==
    /\ Len(returned) = 2
    /\ returned[1].done
    /\ returned[1].list # <<>>
    /\ PopulationFailed
    /\ BegunIn(2) # {}

\* control is inside a dispatch call
InDispatch == pc \in {"open_enter", "open_loop", "send_order", "submit", "drain"}

\* call j returned to its caller without an error
Succeeded(j) ==
    /\ j <= Len(returned)
    /\ returned[j].done
    /\ j < calls \/ ~InDispatch
    /\ \A p \in WirePos : wire[p].call = j => wire[p].ok

\* what call j did on the channels, in the order it was done
ChannelOps(j) ==
    SelectSeq(wire, LAMBDA m : m.call = j /\ m.cmd \in {"SUBMIT", "RESULT", "MARKER"})

\* C15: when SendCommandToWorkersInParallel returns without error, every
\* handle of the list was submitted to once, then, handle by handle in
\* submission order, had one result and one trailing idle marker drained,
\* and the channels are idle; a drained result that is not a success is
\* cleared without its marker being drained and ends the call with an error.
C15_ParallelDrainShape ==
    /\ \A j \in ParallelCalls :
          Succeeded(j) =>
              LET list == returned[j].list
                  n == Len(list)
                  ops == ChannelOps(j)
              IN /\ Len(ops) = 3 * n
                 /\ \A k \in 1..n :
                       /\ ops[k].cmd = "SUBMIT" /\ ops[k].h = list[k]
                       /\ ops[n + 2 * k - 1].cmd = "RESULT"
                       /\ ops[n + 2 * k - 1].h = list[k]
                       /\ ops[n + 2 * k].cmd = "MARKER"
                       /\ ops[n + 2 * k].h = list[k]
                 /\ (j = calls /\ ~InDispatch) =>
                       \A k \in 1..n : Conn(list[k]).channel = "idle"
    /\ \A p \in WirePos :
          (wire[p].cmd = "RESULT" /\ ~wire[p].ok) =>
              /\ xactState \in {"failed", "abort"}
              /\ Conn(wire[p].h).channel = "marker"
              /\ \A q \in WirePos :
                    q > p => wire[q].cmd \notin {"SUBMIT", "RESULT", "MARKER", "CMD"}

C15_Witness ==
    /\ Len(returned) = 2
    /\ ParallelCalls = {1, 2}
    /\ Succeeded(1)
    /\ Len(returned[1].list) = 2
    /\ Len(returned[2].list) = 2
    /\ \E p \in WirePos : /\ wire[p].cmd = "RESULT"
                          /\ ~wire[p].ok
                          /\ wire[p].h = returned[2].list[2]

\* the commands that are sent on the channel of a handle that exists
SentCmds == {"CMD", "SUBMIT", "PREPARE"} \cup CommitCmds \cup RollbackCmds

\* a SendCommandToWorkersInParallel call failed in its submit or drain phase
ParallelFailed ==
    \E q \in WirePos : wire[q].cmd \in {"SUBMIT", "RESULT"} /\ ~wire[q].ok

\* C16 (as claimed): whenever a command is sent on a handle's channel, the
\* channel holds no undrained result or idle marker, also for the rollback
\* that follows a failed parallel call.
C16_ChannelIdleWhenSent ==
    \A p \in WirePos : wire[p].cmd \in SentCmds => wire[p].chan = "idle"

\* C16 (amended): every dispatch command, PREPARE and commit command finds
\* its channel idle; a rollback finds its channel idle unless a parallel
\* call failed in its submit or drain phase, and then every handle the
\* failed call had submitted to is sent its rollback on a channel that
\* still holds the undrained result, or the undrained idle marker of the
\* failed result.
C16_ChannelIdleUnlessFailedParallel ==
    \A p \in WirePos :
        /\ wire[p].cmd \in SentCmds \ RollbackCmds => wire[p].chan = "idle"
        /\ wire[p].cmd \in RollbackCmds =>
              LET submitted ==
                     \E s \in WirePos : /\ s < p
                                        /\ wire[s].h = wire[p].h
                                        /\ wire[s].cmd = "SUBMIT"
                                        /\ wire[s].ok
                                        /\ wire[s].call = calls
                  failedResult ==
                     \E r \in WirePos : /\ wire[r].h = wire[p].h
                                        /\ wire[r].cmd = "RESULT"
                                        /\ ~wire[r].ok
                  marker ==
                     \E r \in WirePos : /\ wire[r].h = wire[p].h
                                        /\ wire[r].cmd = "MARKER"
                                        /\ wire[r].call = calls
              IN /\ wire[p].chan = "idle" <=>
                       ~(ParallelFailed /\ submitted /\ ~marker)
                 /\ wire[p].chan = "marker" <=> failedResult
                 /\ wire[p].chan = "result" <=>
                       (ParallelFailed /\ submitted /\ ~marker /\ ~failedResult)

C16_Witness ==
    /\ \E p \in WirePos : wire[p].cmd = "ROLLBACK" /\ wire[p].chan = "result"
    /\ \E p \in WirePos : wire[p].cmd = "ROLLBACK" /\ wire[p].chan = "marker"
    /\ pc = "idle"

\* C17: RegisterXactCallback is called at most once over all populations
\* and local transactions, the flag tells whether it was called, and a
\* non-empty registered list implies that the callback is registered.
C17_RegisteredOnce ==
    /\ registerCount <= 1
    /\ isXactCallbackRegistered <=> registerCount = 1
    /\ workerConnectionList # <<>> => isXactCallbackRegistered

C17_Witness ==
    /\ xactId = 2
    /\ Len(returned) = 2
    /\ returned[1].fresh /\ returned[1].done
    /\ returned[2].fresh /\ returned[2].done
    /\ workerConnectionList # <<>>
    /\ registerCount = 1

\* the callback was entered with nothing to do: an empty list, or an event
\* that is none of PRE_COMMIT, COMMIT, ABORT
NoOpEntry ==
    /\ pc = "complete"
    /\ NothingToDo(workerConnectionList) \/ event = "OTHER"

\* C18: entered with an empty list (whatever the event) or with an event
\* that is none of PRE_COMMIT, COMMIT, ABORT, the callback returns at once,
\* sends nothing and leaves the list and the handles as they are; no step
\* taken for the PRE_COMMIT event changes the list, under either protocol,
\* so the COMMIT event finds the list the last dispatch call was given.
C18_NoOpAndPreCommitFrame ==
    /\ [][NoOpEntry =>
             /\ pc' = "idle"
             /\ UNCHANGED <<wire, workerConnectionList, conns>>]_vars
    /\ [][event = "PRE_COMMIT" => UNCHANGED workerConnectionList]_vars
    /\ []((pc = "complete" /\ event = "COMMIT")
             => workerConnectionList = Registered)

C18_Witness ==
    /\ xactState = "precommit"
    /\ pc = "idle"
    /\ MultiShardCommitProtocol = "2PC"
    /\ Len(workerConnectionList) = 2
    /\ \A i \in 1..2 : Conn(workerConnectionList[i]).transactionState = "PREPARED"

\* a dispatch call of this transaction stored a non-empty list (line 212)
WasPopulated ==
    \E j \in 1..Len(returned) :
        returned[j].fresh /\ returned[j].done /\ returned[j].list # <<>>

\* the COMMIT or ABORT event of the transaction has been handled
Completed == xactState \in {"commit", "abort"} /\ pc = "idle"

\* C19 (as claimed): a populated list is eventually emptied, and between a
\* population and the start of the next local transaction the callback
\* empties the list exactly once.
C19_TornDownOnce ==
    /\ (workerConnectionList # <<>>) ~> (workerConnectionList = <<>>)
    /\ [](teardowns <= 1)
    /\ []((Completed /\ WasPopulated) => teardowns = 1)

\* a stored non-empty list is eventually emptied
EventuallyEmptied ==
    (workerConnectionList # <<>>) ~> (workerConnectionList = <<>>)

\* how far a handle's remote transaction has come
StateRank(st) ==
    CASE st = "OPEN" -> 1
      [] st = "PREPARED" -> 2
      [] st \in Terminal -> 3

\* the handle behind slot i of conns is finished: its remote transaction
\* reached a terminal state, or its connection was closed
Finished(i) == conns[i].transactionState \in Terminal \/ ~conns[i].open

\* the wire entries the step adds, BEGIN apart (it precedes its handle)
NewCommands ==
    {wire'[p] : p \in {q \in (Len(wire) + 1)..Len(wire') : wire'[q].cmd # "BEGIN"}}

\* C20: within a local transaction a handle's state only moves forward,
\* OPEN, then possibly PREPARED, then a terminal state; a handle in a
\* terminal state or closed by the invalidation changes no more and is sent
\* nothing more; no handle is sent a commit command after a rollback
\* command, nor a rollback command after a commit command.
C20_ForwardOnly ==
    [][xactId' = xactId =>
          /\ Len(conns') >= Len(conns)
          /\ \A i \in 1..Len(conns) :
                /\ StateRank(conns'[i].transactionState)
                      >= StateRank(conns[i].transactionState)
                /\ Finished(i) => conns'[i] = conns[i]
          /\ \A m \in NewCommands :
                /\ Live(m.h)
                /\ ~Finished(m.h.n)
                /\ m.cmd \in CommitCmds => SentTo(m.h, RollbackCmds) = {}
                /\ m.cmd \in RollbackCmds => SentTo(m.h, CommitCmds) = {}]_vars

C20_Witness ==
    /\ pc = "idle"
    /\ \E i \in 1..Len(conns) : ~conns[i].open
    /\ \E i \in 1..Len(conns) : conns[i].transactionState = "COMMITTED"
    /\ \E i \in 1..Len(conns) : conns[i].transactionState = "FAILED"
    /\ \E p \in WirePos : wire[p].cmd = "COMMIT PREPARED"
====
